---- MODULE Spec2Model ----
(***************************************************************************)
(* TimNet heating controller integration: the Modbus-TCP transport         *)
(* (modbus_client.py), the acquisition loop (TimNetCoordinator) and the     *)
(* register decoder (TimNetSensor, TimNetDoorSensor, TimNetConnectionSensor)*)
(* of sensor.py.                                                            *)
(*                                                                          *)
(* Three specifications share the module:                                   *)
(*   Spec        the acquisition loop with its consumers                    *)
(*   SpecRead    read_holding_registers over bounded requests and responses *)
(*   SpecDecode  native_value / is_on over bounded raw register values      *)
(***************************************************************************)
EXTENDS Integers, Sequences, FiniteSets, TLC

VARIABLES
    last_valid_data,  \* TimNetCoordinator._last_valid_data (dict offset -> word)
    connection_ok,    \* TimNetCoordinator.connection_ok
    data,             \* coordinator.data as consumers see it (None before the first tick)
    pc,               \* position of _async_update_data: "idle", or at its await: "fetching"
                      \* while _fetch_data runs in the executor, "fetched" once it has ended
    returned,         \* how the last completed tick ended, and the reading it returned
    lastFetch,        \* outcome of _fetch_data in the last completed tick
    goodReading,      \* history: the reading fetched by the most recent non-empty fetch
    lastRead,         \* the last accessor called since the last tick ended, and its result
    repeated,         \* history: the last two accessor calls were of the same accessor
    readAt,           \* history: pc when the last accessor was called
    job,              \* the executor job's outcome, once _fetch_data has ended (pc "fetched")
    tickStartData,    \* history: coordinator.data when the current or last tick began
    sentTids,         \* history: transaction ids of the last two requests sent
    setup,            \* async_setup_entry: pending, or how it ended and the entities made
    rd_tid,           \* SpecRead: the client's _tid before the call
    rd_count,         \* SpecRead: the count argument
    rd_wire,          \* SpecRead: what the network does for the request
    rd_result,        \* SpecRead: how read_holding_registers ended
    dc_key,           \* SpecDecode: the accessor under test
    dc_raw,           \* SpecDecode: the raw register value
    dc_value          \* SpecDecode: the decoded value

vars == <<last_valid_data, connection_ok, data, pc, returned, lastFetch,
          goodReading, lastRead, repeated, readAt, job, tickStartData, sentTids, setup,
          rd_tid, rd_count, rd_wire, rd_result,
          dc_key, dc_raw, dc_value>>

loopVars == <<last_valid_data, connection_ok, data, pc, returned, lastFetch,
              goodReading, lastRead, repeated, readAt, job, tickStartData, sentTids,
              setup>>
readVars == <<rd_tid, rd_count, rd_wire, rd_result>>
decodeVars == <<dc_key, dc_raw, dc_value>>

(***************************************************************************)
(* Bounds of the model.                                                     *)
(***************************************************************************)
\* Register words carried by an enumerated response of SpecRead: 0..MaxWords.
MaxWords == 3
\* Requested counts enumerated from 0 upward in SpecRead (125 and 126 are added).
MaxCount == 3
\* Raw register values 0..MaxRaw are decoded exhaustively in SpecDecode.
MaxRaw == 1000

(***************************************************************************)
(* Program constants.                                                       *)
(***************************************************************************)
\* _fetch_data reads registers 0..21.
RegisterCount == 22
\* _send_request drops the first 7 bytes of what it received.
HeaderLen == 7
\* read_holding_registers accepts count 1..125.
MaxRegisters == 125
\* s.recv(4096)
RecvBufSize == 4096
\* & 0xFFFF
WordMod == 65536
\* config.get(CONF_UNIT, 1)
Unit == 1

(***************************************************************************)
(* Python values.                                                           *)
(***************************************************************************)
None == [t |-> "None"]
PyStr(s) == [t |-> "str", s |-> s]
PyInt(n) == [t |-> "int", v |-> n]
\* A float with one decimal place, held as its number of tenths.
PyFloat(tenths) == [t |-> "float", tenths |-> tenths]
PyBool(b) == [t |-> "bool", b |-> b]

\* An empty dict; a dict with keys 0..n-1 is a function on 0..n-1.
EmptyDict == << >>
\* coordinator.data: None, or a dict.
NoData == [none |-> TRUE, map |-> EmptyDict]
SomeData(d) == [none |-> FALSE, map |-> d]
\* Python truthiness of coordinator.data: None and {} are falsy.
Truthy(d) == ~d.none /\ d.map # EmptyDict
\* dict.get(key) on a dict: the value, or None.
DictGet(d, key) == IF key \in DOMAIN d THEN PyInt(d[key]) ELSE None

(***************************************************************************)
(* Bytes and words.                                                         *)
(***************************************************************************)
Min(a, b) == IF a < b THEN a ELSE b
Max(a, b) == IF a > b THEN a ELSE b

\* struct.pack(">H", w): the two bytes of a word, high byte first.
PackWord(w) == <<(w % WordMod) \div 256, w % 256>>
\* Mutant: the byte pair read low byte first ("<H").
UnpackWord_LittleEndian(b0, b1) == b1 * 256 + b0
\* struct.unpack(">H", <<b0, b1>>)
UnpackWord(b0, b1) == b0 * 256 + b1

\* bytes.hex(): two hexadecimal digits per byte, high nibble first.
Hex(bytes) ==
    [i \in 1 .. (2 * Len(bytes)) |->
        IF i % 2 = 1 THEN bytes[(i + 1) \div 2] \div 16 ELSE bytes[i \div 2] % 16]

\* Python slice s[from:to] of a sequence, 0-based, clipped to the sequence.
Slice(s, from, to) == SubSeq(s, from + 1, Min(to, Len(s)))

(***************************************************************************)
(* Transport: MinimalModbusTcpClient.                                       *)
(*                                                                          *)
(* A wire is what the network does for one request:                         *)
(*   kind "refused"       create_connection raises ConnectionRefusedError   *)
(*   kind "connect_timeout"  create_connection raises socket.timeout        *)
(*   kind "recv_timeout"  the request is sent and recv raises socket.timeout*)
(*   kind "data"          recv returns bytes (possibly none)                *)
(* A call ends as a record: exc is "none" or the exception class raised,    *)
(* text and hex its message, value what is returned, and net what the call  *)
(* did to the client and the network (tid after the call, the ADU built,    *)
(* calls of create_connection, connections opened and closed, requests      *)
(* sent).                                                                   *)
(***************************************************************************)
NoNet(tid) ==
    [tid |-> tid, adu |-> << >>, connects |-> 0, opened |-> 0, sent |-> 0, closed |-> 0]
Return(value, net) ==
    [exc |-> "none", text |-> "", hex |-> << >>, value |-> value, net |-> net]
Raise(exc, text, hex, net) ==
    [exc |-> exc, text |-> text, hex |-> hex, value |-> << >>, net |-> net]

\* _next_tid
NextTid(tid) == (tid + 1) % WordMod

\* _send_request(pdu) on a client whose _tid is tid.
SendRequest(tid, pdu, wire) ==
    LET t == NextTid(tid)
        adu == PackWord(t) \o PackWord(0) \o PackWord(Len(pdu) + 1)
                 \o <<Unit % 256>> \o pdu
        unopened == [tid |-> t, adu |-> adu, connects |-> 1, opened |-> 0, sent |-> 0,
                     closed |-> 0]
        \* the with block closes the socket on every way out of it
        used == [tid |-> t, adu |-> adu, connects |-> 1, opened |-> 1, sent |-> 1,
                 closed |-> 1]
        received == Slice(wire.bytes, 0, RecvBufSize)
    IN  CASE wire.kind = "refused" ->
                Raise("ConnectionRefusedError", "Connection refused", << >>, unopened)
          [] wire.kind = "connect_timeout" ->
                Raise("timeout", "timed out", << >>, unopened)
          [] wire.kind = "recv_timeout" ->
                Raise("timeout", "timed out", << >>, used)
          [] OTHER ->
                IF Len(received) < HeaderLen
                THEN Raise("IOError", "Incomplete response", << >>, used)
                ELSE Return(Slice(received, HeaderLen, Len(received)), used)

\* Mutant: the loop lacks the i+1 test and takes an unpaired last byte as the
\* high byte of one more word.
DecodeRegs_PadsTrailing(regs_bytes) ==
    [k \in 1 .. ((Len(regs_bytes) + 1) \div 2) |->
        IF 2 * k <= Len(regs_bytes)
        THEN regs_bytes[2 * k - 1] * 256 + regs_bytes[2 * k]
        ELSE regs_bytes[2 * k - 1] * 256]
\* The loop of read_holding_registers: for i = 0, 2, 4, ... below the length,
\* one word from regs_bytes[i:i+2] when i+1 is below the length too.
DecodeRegs(regs_bytes) ==
    [k \in 1 .. (Len(regs_bytes) \div 2) |->
        UnpackWord(regs_bytes[2 * k - 1], regs_bytes[2 * k])]

\* Mutant: only exception code 0x83 is taken for an exception (fc == 0x83).
IsExceptionFc_Only83(fc) == fc = 131
\* fc & 0x80
IsExceptionFc(fc) == (fc \div 128) % 2 = 1

\* Mutant: the count is tested after the request has been sent.
ReadHoldingRegisters_LateCheck(tid, address, count, wire) ==
    LET pdu == <<3>> \o PackWord(address % WordMod) \o PackWord(count % WordMod)
        sent == SendRequest(tid, pdu, wire)
        resp == sent.value
    IN  IF sent.exc # "none" THEN sent
        ELSE IF count < 1 \/ count > MaxRegisters
        THEN Raise("ValueError", "count must be 1..125", << >>, sent.net)
        ELSE IF resp = << >>
        THEN Raise("IOError", "No response", << >>, sent.net)
        ELSE IF IsExceptionFc(resp[1])
        THEN Raise("IOError", "Exception response: ", Hex(resp), sent.net)
        ELSE IF Len(resp) < 2
        THEN Raise("IndexError", "index out of range", << >>, sent.net)
        ELSE Return(Slice(DecodeRegs(Slice(resp, 2, 2 + resp[2])), 0, count), sent.net)
\* read_holding_registers(address, count) on a client whose _tid is tid.
ReadHoldingRegisters(tid, address, count, wire) ==
    IF count < 1 \/ count > MaxRegisters
    THEN Raise("ValueError", "count must be 1..125", << >>, NoNet(tid))
    ELSE
      LET pdu == <<3>> \o PackWord(address % WordMod) \o PackWord(count % WordMod)
          sent == SendRequest(tid, pdu, wire)
          resp == sent.value
      IN  IF sent.exc # "none" THEN sent
          ELSE IF resp = << >>
          THEN Raise("IOError", "No response", << >>, sent.net)
          ELSE IF IsExceptionFc(resp[1])
          THEN Raise("IOError", "Exception response: ", Hex(resp), sent.net)
          ELSE IF Len(resp) < 2
          THEN Raise("IndexError", "index out of range", << >>, sent.net)
          ELSE
            LET byte_count == resp[2]
                regs_bytes == Slice(resp, 2, 2 + byte_count)
                regs == DecodeRegs(regs_bytes)
            IN  Return(Slice(regs, 0, count), sent.net)

(***************************************************************************)
(* Decoder: REGISTER_DEFINITIONS and the accessors of the three entities.   *)
(***************************************************************************)
\* The catalog, in its order; divider 0 stands for a descriptor without one.
REGISTER_DEFINITIONS == <<
    [address |-> 0,  key |-> "TT",      divider |-> 10, timnet_200_only |-> FALSE],
    [address |-> 1,  key |-> "TT2",     divider |-> 10, timnet_200_only |-> TRUE],
    [address |-> 2,  key |-> "CAS",     divider |-> 60, timnet_200_only |-> FALSE],
    [address |-> 3,  key |-> "SER1",    divider |-> 0,  timnet_200_only |-> FALSE],
    [address |-> 5,  key |-> "REZIM",   divider |-> 0,  timnet_200_only |-> FALSE],
    [address |-> 6,  key |-> "PALIVO",  divider |-> 0,  timnet_200_only |-> FALSE],
    [address |-> 7,  key |-> "PRILOZ",  divider |-> 0,  timnet_200_only |-> FALSE],
    [address |-> 8,  key |-> "SDS",     divider |-> 0,  timnet_200_only |-> FALSE],
    [address |-> 9,  key |-> "BARVA",   divider |-> 0,  timnet_200_only |-> FALSE],
    [address |-> 16, key |-> "BEEP",    divider |-> 0,  timnet_200_only |-> FALSE],
    [address |-> 17, key |-> "RELE1",   divider |-> 0,  timnet_200_only |-> TRUE],
    [address |-> 18, key |-> "RELE2",   divider |-> 0,  timnet_200_only |-> TRUE],
    [address |-> 19, key |-> "PORUCHA", divider |-> 0,  timnet_200_only |-> FALSE],
    [address |-> 20, key |-> "STAT",    divider |-> 0,  timnet_200_only |-> FALSE],
    [address |-> 21, key |-> "P_LIFE",  divider |-> 0,  timnet_200_only |-> FALSE] >>

RegisterKeys == {REGISTER_DEFINITIONS[i].key : i \in DOMAIN REGISTER_DEFINITIONS}
RegDef(key) ==
    REGISTER_DEFINITIONS[CHOOSE i \in DOMAIN REGISTER_DEFINITIONS :
                            REGISTER_DEFINITIONS[i].key = key]

\* The labels are the source's; a letter outside Latin-1 (which the TLA+ lexer
\* does not read) is written without its diacritic.

\* The door switch register (0x0004).
DoorAddress == 4

STATUS_MAP ==
    (0 :> "Start napájení") @@ (1 :> "Klidový stav 100%") @@ (2 :> "Klidový stav 0%")
    @@ (3 :> "Zatápení") @@ (4 :> "Start regulace")
    @@ (5 :> "Horení (vzrustající teplota)") @@ (6 :> "Horení (klesající teplota)")
    @@ (7 :> "Prilozit") @@ (8 :> "Zárový proces") @@ (10 :> "Nezatopeno")
    @@ (13 :> "Pretopeno") @@ (14 :> "Dlouho otevrená dvírka")
    @@ (15 :> "Testovací rezim") @@ (20 :> "Porucha teploty")
MODE_MAP == (1 :> "Eco") @@ (2 :> "Standard") @@ (3 :> "Turbo")
FUEL_MAP == (1 :> "Drevo") @@ (2 :> "Brikety")
REFUEL_MAP == (1 :> "-2") @@ (2 :> "-1") @@ (3 :> "Standard") @@ (4 :> "+1") @@ (5 :> "+2")
COLOR_MAP == (0 :> "Bez barvy") @@ (1 :> "Zlutá") @@ (2 :> "Zelená") @@ (3 :> "Cervená")
BEEP_MAP == (0 :> "Vypnuto") @@ (15 :> "Zapnuto")
RELAY_MAP == (0 :> "Rozepnuto") @@ (1 :> "Sepnuto")
\* level_map of the SDS branch
LEVEL_MAP == (1 :> "-2") @@ (2 :> "-1") @@ (3 :> "Standard") @@ (4 :> "+1") @@ (5 :> "+2")

\* Mutant: table.get(raw_value) without the default.
MapGet_NoDefault(table, raw_value, default) ==
    IF raw_value \in DOMAIN table THEN PyStr(table[raw_value]) ELSE None
\* table.get(raw_value, default): the table's label as a str, or the default.
MapGet(table, raw_value, default) ==
    IF raw_value \in DOMAIN table THEN PyStr(table[raw_value]) ELSE default

\* floor(log2(n / 20)) for n >= 1.
RECURSIVE Log2Floor(_)
Log2Floor(m) == IF m <= 1 THEN 0 ELSE 1 + Log2Floor(m \div 2)
RECURSIVE ShiftUntil20(_, _)
ShiftUntil20(n, k) == IF n >= 20 THEN k ELSE ShiftUntil20(2 * n, k + 1)
Log2Of20th(n) == IF n >= 20 THEN Log2Floor(n \div 20) ELSE 0 - ShiftUntil20(n, 0)
Pow2Mod5(k) == CASE k % 4 = 0 -> 1 [] k % 4 = 1 -> 2 [] k % 4 = 2 -> 4 [] OTHER -> 3

\* round(raw_value / divider, 1), as a number of tenths.  The quotient is the
\* IEEE double nearest to raw/divider and round() rounds that double correctly,
\* half to even.  A decimal tie n/20 (n odd) that is no binary fraction is
\* decided by the side on which the double lies: the 53-bit significand is
\* n * 2^(e-2) / 5 rounded to nearest, so the remainder modulo 5 tells.
RoundTenths(raw_value, divider) ==
    LET q == (raw_value * 10) \div divider
        r == (raw_value * 10) % divider
        n == 2 * q + 1
        e == 52 - Log2Of20th(n)
        r5 == ((n % 5) * Pow2Mod5(e - 2)) % 5
    IN  IF 2 * r < divider THEN q
        ELSE IF 2 * r > divider THEN q + 1
        ELSE IF n % 5 = 0 THEN (IF q % 2 = 0 THEN q ELSE q + 1)
        ELSE IF r5 \in {1, 2} THEN q ELSE q + 1

\* ", ".join(names)
RECURSIVE Join(_)
Join(names) ==
    IF names = << >> THEN ""
    ELSE IF Len(names) = 1 THEN names[1]
    ELSE names[1] \o ", " \o Join(Tail(names))

\* raw_value & mask for a one-bit mask
BitSet(raw_value, mask) == (raw_value \div mask) % 2 = 1

\* Mutant: the under-range test compares with -20000 only.
DecodeTemperature_NoLo(reg_def, raw_value) ==
    IF raw_value = 20000 THEN PyStr("HI")
    ELSE IF raw_value = 0 - 20000 THEN PyStr("LO")
    ELSE IF raw_value = 20001 THEN PyStr("---")
    ELSE IF raw_value = 20002 THEN PyStr("Neaktivní")
    ELSE IF reg_def.divider # 0 THEN PyFloat(RoundTenths(raw_value, reg_def.divider))
    ELSE PyInt(raw_value)
\* The temperature branch of native_value (keys TT and TT2).
DecodeTemperature(reg_def, raw_value) ==
    IF raw_value = 20000 THEN PyStr("HI")
    ELSE IF raw_value = 0 - 20000 \/ raw_value = 65536 - 20000 THEN PyStr("LO")
    ELSE IF raw_value = 20001 THEN PyStr("---")
    ELSE IF raw_value = 20002 THEN PyStr("Neaktivní")
    ELSE IF reg_def.divider # 0 THEN PyFloat(RoundTenths(raw_value, reg_def.divider))
    ELSE PyInt(raw_value)

\* The text-mapping branches of native_value.
DecodeEnumerated(key, raw_value) ==
    CASE key = "STAT" ->
            MapGet(STATUS_MAP, raw_value, PyStr("Neznámý (" \o ToString(raw_value) \o ")"))
      [] key = "REZIM" -> MapGet(MODE_MAP, raw_value, PyInt(raw_value))
      [] key = "PALIVO" -> MapGet(FUEL_MAP, raw_value, PyInt(raw_value))
      [] key = "PRILOZ" -> MapGet(REFUEL_MAP, raw_value, PyInt(raw_value))
      [] key = "BARVA" -> MapGet(COLOR_MAP, raw_value, PyInt(raw_value))
      [] key = "BEEP" -> MapGet(BEEP_MAP, raw_value, PyInt(raw_value))
      [] key \in {"RELE1", "RELE2"} -> MapGet(RELAY_MAP, raw_value, PyInt(raw_value))

\* Mutant: the door-sensor fault is tested on bit 2 (raw_value & 4).
DecodeFault_DoorBit2(raw_value) ==
    LET faults == (IF BitSet(raw_value, 1) THEN <<"T1">> ELSE << >>)
                  \o (IF BitSet(raw_value, 2) THEN <<"T2">> ELSE << >>)
                  \o (IF BitSet(raw_value, 4) THEN <<"Dvírka">> ELSE << >>)
    IN  IF raw_value = 0 THEN PyStr("Bez poruchy")
        ELSE IF faults # << >> THEN PyStr(Join(faults))
        ELSE PyStr("Neznámá (" \o ToString(raw_value) \o ")")
\* The sensor-fault branch of native_value.
DecodeFault(raw_value) ==
    LET faults == (IF BitSet(raw_value, 1) THEN <<"T1">> ELSE << >>)
                  \o (IF BitSet(raw_value, 2) THEN <<"T2">> ELSE << >>)
                  \o (IF BitSet(raw_value, 8) THEN <<"Dvírka">> ELSE << >>)
    IN  IF raw_value = 0 THEN PyStr("Bez poruchy")
        ELSE IF faults # << >> THEN PyStr(Join(faults))
        ELSE PyStr("Neznámá (" \o ToString(raw_value) \o ")")

\* Mutant: the percentage is returned as read, without the clamp.
DecodeFlap_NoClamp(raw_value) ==
    IF raw_value = 255 THEN PyStr("Inicializace") ELSE PyInt(raw_value)
\* The flap-position branch of native_value (key SER1).
DecodeFlap(raw_value) ==
    IF raw_value = 255 THEN PyStr("Inicializace")
    ELSE PyInt(Min(100, Max(0, raw_value)))

\* native_value from the key on: the decode rule of reg_def applied to raw_value.
Decode(reg_def, raw_value) ==
    LET key == reg_def.key
    IN  CASE key \in {"TT", "TT2"} -> DecodeTemperature(reg_def, raw_value)
          [] key = "CAS" ->
                IF reg_def.divider # 0
                THEN PyFloat(RoundTenths(raw_value, reg_def.divider))
                ELSE PyInt(raw_value)
          [] key = "SER1" -> DecodeFlap(raw_value)
          [] key = "SDS" ->
                IF raw_value = 255 THEN PyStr("Vypnuto")
                ELSE LET active == raw_value % 10
                         level == raw_value \div 10
                         level_str == IF level \in DOMAIN LEVEL_MAP
                                      THEN LEVEL_MAP[level] ELSE "Neznámé"
                     IN  PyStr(level_str \o " "
                               \o (IF active = 1 THEN "(Aktivní)" ELSE "(Neaktivní)"))
          [] key \in {"STAT", "REZIM", "PALIVO", "PRILOZ", "BARVA", "BEEP",
                      "RELE1", "RELE2"} -> DecodeEnumerated(key, raw_value)
          [] key = "PORUCHA" -> DecodeFault(raw_value)
          [] OTHER ->
                IF reg_def.divider # 0
                THEN PyFloat(RoundTenths(raw_value, reg_def.divider))
                ELSE PyInt(raw_value)

\* Mutant: no guard on missing data, and data.get(address, 0).
NativeValue_DefaultZero(reg_def, d) ==
    Decode(reg_def, IF reg_def.address \in DOMAIN d.map THEN d.map[reg_def.address] ELSE 0)
\* TimNetSensor.native_value for the sensor of reg_def, d being coordinator.data.
NativeValue(reg_def, d) ==
    IF ~Truthy(d) THEN None
    ELSE LET raw_value == DictGet(d.map, reg_def.address)
         IN  IF raw_value = None THEN None ELSE Decode(reg_def, raw_value.v)

\* TimNetDoorSensor.is_on
DoorIsOn(d) ==
    IF ~Truthy(d) THEN None
    ELSE LET raw_value == DictGet(d.map, DoorAddress)
         IN  IF raw_value = None THEN None ELSE PyBool(raw_value.v # 0)

\* raw_value of extra_state_attributes for the register at address: the raw
\* word, or None when the attribute is left out.
RawValueAttr(address, d) ==
    IF ~Truthy(d) THEN None ELSE DictGet(d.map, address)

\* Mutant: connected whenever a reading exists, whatever the last tick did.
ConnectionIsOn_IgnoresHealth(ok, d) == PyBool(Truthy(d))
\* TimNetConnectionSensor.is_on
ConnectionIsOn(ok, d) == PyBool(ok /\ Truthy(d))

\* TimNetConnectionSensor.available
ConnectionAvailable == PyBool(TRUE)

(***************************************************************************)
(* Acquisition loop: TimNetCoordinator.                                     *)
(***************************************************************************)
\* enumerate(values) into a dict: offset i maps to values[i].
DictOf(values) == [i \in 0 .. (Len(values) - 1) |-> values[i + 1]]

\* Mutant: a failed read is tried once more on the same client.
FetchData_RetryOnce(wire) ==
    LET r1 == ReadHoldingRegisters(0, 0, RegisterCount, wire)
        r2 == ReadHoldingRegisters(r1.net.tid, 0, RegisterCount, wire)
        both == [tid |-> r2.net.tid, adu |-> r2.net.adu,
                 connects |-> r1.net.connects + r2.net.connects,
                 opened |-> r1.net.opened + r2.net.opened,
                 sent |-> r1.net.sent + r2.net.sent,
                 closed |-> r1.net.closed + r2.net.closed]
    IN  IF r1.exc = "none" THEN Return(DictOf(r1.value), r1.net)
        ELSE IF r2.exc = "none" THEN Return(DictOf(r2.value), both)
        ELSE [r2 EXCEPT !.net = both]
\* _fetch_data: a new client (its _tid is 0) reads registers 0..21.
FetchData(wire) ==
    LET r == ReadHoldingRegisters(0, 0, RegisterCount, wire)
    IN  IF r.exc # "none" THEN r ELSE Return(DictOf(r.value), r.net)

\* Mutant: "except OSError", which lets the IndexError of a one-byte PDU through.
Caught_OnlyOSError(exc) == exc \in {"IOError", "timeout", "ConnectionRefusedError"}
\* The classes "except Exception" catches: every exception the fetch can raise.
Caught(exc) ==
    exc \in {"IOError", "ValueError", "IndexError", "timeout", "ConnectionRefusedError"}

\* Mutant: the success branch returns the cache as it was before the assignment.
AsyncUpdateData_ReturnsStale(cache, ok, fetch) ==
    IF fetch.exc = "none" /\ fetch.value # EmptyDict
    THEN [last_valid_data |-> fetch.value, connection_ok |-> TRUE,
          raised |-> FALSE, value |-> cache]
    ELSE [last_valid_data |-> cache, connection_ok |-> FALSE,
          raised |-> FALSE, value |-> cache]
\* Mutant: a failed tick returns an empty reading and keeps the cache.
AsyncUpdateData_EmptyOnFailure(cache, ok, fetch) ==
    IF fetch.exc = "none" /\ fetch.value # EmptyDict
    THEN [last_valid_data |-> fetch.value, connection_ok |-> TRUE,
          raised |-> FALSE, value |-> fetch.value]
    ELSE [last_valid_data |-> cache, connection_ok |-> FALSE,
          raised |-> FALSE, value |-> EmptyDict]
\* Mutant: a failed tick clears the cache.
AsyncUpdateData_ClearsOnFailure(cache, ok, fetch) ==
    IF fetch.exc = "none" /\ fetch.value # EmptyDict
    THEN [last_valid_data |-> fetch.value, connection_ok |-> TRUE,
          raised |-> FALSE, value |-> fetch.value]
    ELSE [last_valid_data |-> EmptyDict, connection_ok |-> FALSE,
          raised |-> FALSE, value |-> EmptyDict]
\* _async_update_data after the executor job ended as fetch: the new
\* _last_valid_data and connection_ok, and whether it raises or what it returns.
AsyncUpdateData(cache, ok, fetch) ==
    IF fetch.exc = "none"
    THEN IF fetch.value # EmptyDict
         THEN [last_valid_data |-> fetch.value, connection_ok |-> TRUE,
               raised |-> FALSE, value |-> fetch.value]
         ELSE [last_valid_data |-> cache, connection_ok |-> FALSE,
               raised |-> FALSE, value |-> cache]
    ELSE IF Caught(fetch.exc)
         THEN [last_valid_data |-> cache, connection_ok |-> FALSE,
               raised |-> FALSE, value |-> cache]
         ELSE [last_valid_data |-> cache, connection_ok |-> ok,
               raised |-> TRUE, value |-> EmptyDict]

\* Mutant: _fetch_data writes its registers into the dict consumers read; when
\* it ends, the first half of the registers is the new reading's.
VisibleDuringFetch_InPlace(d, fetch) ==
    IF fetch.exc = "none" /\ ~d.none
    THEN SomeData([i \in DOMAIN d.map |->
                     IF i \in DOMAIN fetch.value /\ 2 * i < RegisterCount
                     THEN fetch.value[i] ELSE d.map[i]])
    ELSE d
\* coordinator.data while the tick waits at its await, the executor job having
\* ended as fetch: _fetch_data fills a dict of its own, so it is d still.
VisibleDuringFetch(d, fetch) == d

\* The register the variant inference looks at (T2).
T2Address == 1
\* The T2 values that stand for a TimNet 100.
T2Sentinels == {20000, 20001, 20002}

\* async_setup_entry from the entity loop on, d being coordinator.data of the
\* coordinator just made: whether it raises, and the entities it adds, by key.
SetupEntry(d) ==
    LET defs == REGISTER_DEFINITIONS
        asksT2 == \E i \in DOMAIN defs : defs[i].timnet_200_only
        \* coordinator.data.get(0x0001, 0)
        t2_value == IF T2Address \in DOMAIN d.map THEN d.map[T2Address] ELSE 0
        Kept(reg_def) == ~(reg_def.timnet_200_only /\ t2_value \in T2Sentinels)
        kept == SelectSeq(defs, Kept)
    IN  IF asksT2 /\ d.none
        THEN [state |-> "done", raised |-> TRUE, exc |-> "AttributeError",
              entities |-> << >>]
        ELSE [state |-> "done", raised |-> FALSE, exc |-> "none",
              entities |-> [i \in DOMAIN kept |-> kept[i].key]
                             \o <<"door", "connection">>]

(***************************************************************************)
(* The device and the network, as the loop meets them.                      *)
(***************************************************************************)
\* Two register blocks a device may hold (one word more than is requested).
SampleBlocks == {
    <<215, 0, 1200, 50, 0, 2, 1, 3, 31, 2, 0, 0, 0, 0, 0, 0, 15, 1, 0, 0, 5, 42, 7>>,
    <<20000, 20001, 65535, 255, 255, 9, 0, 6, 255, 7, 1, 1, 1, 1, 1, 1, 1, 2, 3, 10, 99,
      65535, 1>> }

\* The register bytes of a response: each word high byte first.
PackWords(words) ==
    [i \in 1 .. (2 * Len(words)) |->
        IF i % 2 = 1 THEN PackWord(words[(i + 1) \div 2])[1]
        ELSE PackWord(words[i \div 2])[2]]

\* The 7 bytes before the PDU of a response to a request with transaction id 1.
ResponseHeader(pduLen) == PackWord(1) \o PackWord(0) \o PackWord(pduLen + 1) \o <<Unit>>

WireData(bytes) == [kind |-> "data", bytes |-> bytes]
WireFail(kind) == [kind |-> kind, bytes |-> << >>]

\* A response that carries the given PDU.
Framed(pdu) == WireData(ResponseHeader(Len(pdu)) \o pdu)
\* A read response: function code 3, the byte count, the words, trailing bytes.
ReadResponse(words, trailing) ==
    Framed(<<3, (2 * Len(words) + Len(trailing)) % 256>> \o PackWords(words) \o trailing)

FailedWires ==
    {WireFail("refused"), WireFail("connect_timeout"), WireFail("recv_timeout"),
     WireData(<< >>), WireData(SubSeq(ResponseHeader(2), 1, HeaderLen - 1)),
     Framed(<< >>), Framed(<<131, 2>>), Framed(<<3>>)}

\* How many of its registers the device answers with.
LoopWordCounts == {0, 1, RegisterCount - 1, RegisterCount, RegisterCount + 1}

LoopWires ==
    FailedWires
    \cup {ReadResponse(SubSeq(b, 1, n), t) :
            b \in SampleBlocks, n \in LoopWordCounts, t \in {<< >>, <<9>>}}

(***************************************************************************)
(* Consumers.                                                               *)
(***************************************************************************)
\* The raw-value accessors: "raw:<key>" is raw_value of extra_state_attributes.
RawAccessors == {"raw:" \o key : key \in RegisterKeys \cup {"door"}}
RawKey(acc) == CHOOSE key \in RegisterKeys \cup {"door"} : acc = "raw:" \o key

Accessors == RegisterKeys \cup {"door", "connection", "available"} \cup RawAccessors

\* What accessor acc returns when coordinator.data is d and connection_ok is ok.
AccessOn(acc, ok, d) ==
    CASE acc = "door" -> DoorIsOn(d)
      [] acc = "connection" -> ConnectionIsOn(ok, d)
      [] acc = "available" -> ConnectionAvailable
      [] acc \in RawAccessors ->
            RawValueAttr(IF RawKey(acc) = "door" THEN DoorAddress
                         ELSE RegDef(RawKey(acc)).address, d)
      [] OTHER -> NativeValue(RegDef(acc), d)

\* What accessor acc returns in the current state.
Access(acc) == AccessOn(acc, connection_ok, data)

\* Mutant: an accessor takes its register out of the dict (data.pop(address)).
AccessEffect_Pops(cache, ok, d) ==
    <<cache, ok, IF d.none THEN d ELSE SomeData(EmptyDict)>>
\* What a call of an accessor leaves of _last_valid_data, connection_ok and
\* coordinator.data: the accessors assign nothing.
AccessEffect(cache, ok, d) == <<cache, ok, d>>

(***************************************************************************)
(* Spec: the loop and its consumers.                                        *)
(***************************************************************************)
NoCall == [exc |-> "unset", text |-> "", hex |-> << >>, value |-> << >>, net |-> NoNet(0)]
NoWire == WireFail("unset")

ReadIdle == rd_tid = 0 /\ rd_count = 0 /\ rd_wire = NoWire /\ rd_result = NoCall
Unset == [t |-> "unset"]
DecodeIdle == dc_key = "unset" /\ dc_raw = 0 /\ dc_value = Unset

\* No accessor called since the last tick ended.
NoRead == [acc |-> "none", val |-> None]
\* async_setup_entry has not run.
SetupPending == [state |-> "pending", raised |-> FALSE, exc |-> "none", entities |-> << >>]

\* TimNetCoordinator.__init__; coordinator.data is None until a tick returns.
InitLoop ==
    /\ last_valid_data = EmptyDict
    /\ connection_ok = TRUE
    /\ data = NoData
    /\ pc = "idle"
    /\ returned = [kind |-> "none", value |-> EmptyDict]
    /\ lastFetch = NoCall
    /\ goodReading = EmptyDict
    /\ lastRead = NoRead
    /\ repeated = FALSE
    /\ readAt = "none"
    /\ job = NoCall
    /\ tickStartData = NoData
    /\ sentTids = << >>
    /\ setup = SetupPending

Init == InitLoop /\ ReadIdle /\ DecodeIdle

\* async_setup_entry: it makes the coordinator and goes on to the entity loop
\* at once, so it meets the coordinator as __init__ left it.  The scheduler
\* and the consumers are outside the repository: they go on however it ends.
Setup ==
    /\ setup.state = "pending"
    /\ pc = "idle" /\ lastFetch = NoCall
    /\ setup' = SetupEntry(data)
    /\ UNCHANGED <<last_valid_data, connection_ok, data, pc, returned, lastFetch,
                   goodReading, lastRead, repeated, readAt, job, tickStartData,
                   sentTids>>

\* The scheduler starts a tick: _async_update_data runs up to its await.
TickBegin ==
    /\ setup.state = "done"
    /\ pc = "idle"
    /\ pc' = "fetching"
    /\ tickStartData' = data
    /\ UNCHANGED <<last_valid_data, connection_ok, data, returned, lastFetch,
                   goodReading, lastRead, repeated, readAt, job, sentTids, setup>>

\* _fetch_data ends in the executor; the tick is still at its await.
TickFetch ==
    /\ pc = "fetching"
    /\ \E wire \in LoopWires :
         /\ job' = FetchData(wire)
         /\ data' = VisibleDuringFetch(data, FetchData(wire))
    /\ pc' = "fetched"
    /\ UNCHANGED <<last_valid_data, connection_ok, returned, lastFetch, goodReading,
                   lastRead, repeated, readAt, tickStartData, sentTids, setup>>

\* _async_update_data resumes with the job's outcome and runs to its end; the
\* coordinator publishes what it returned as coordinator.data.
TickEnd ==
    /\ pc = "fetched"
    /\ LET fetch == job
           u == AsyncUpdateData(last_valid_data, connection_ok, fetch)
       IN  /\ last_valid_data' = u.last_valid_data
           /\ connection_ok' = u.connection_ok
           /\ returned' = [kind |-> IF u.raised THEN "raised" ELSE "value",
                           value |-> u.value]
           /\ data' = IF u.raised THEN data ELSE SomeData(u.value)
           /\ lastFetch' = fetch
           /\ goodReading' = IF fetch.exc = "none" /\ fetch.value # EmptyDict
                             THEN fetch.value ELSE goodReading
           /\ sentTids' = IF fetch.net.sent = 0 THEN sentTids
                          ELSE LET tid == UnpackWord(fetch.net.adu[1], fetch.net.adu[2])
                               IN  IF sentTids = << >> THEN <<tid>>
                                   ELSE <<sentTids[Len(sentTids)], tid>>
    /\ pc' = "idle"
    /\ job' = NoCall
    /\ lastRead' = NoRead
    /\ repeated' = FALSE
    /\ readAt' = "none"
    /\ UNCHANGED <<tickStartData, setup>>

\* A consumer calls one accessor, at any time.
Read ==
    /\ \E acc \in Accessors :
         /\ lastRead' = [acc |-> acc, val |-> Access(acc)]
         /\ repeated' = (lastRead.acc = acc)
    /\ readAt' = pc
    /\ LET left == AccessEffect(last_valid_data, connection_ok, data)
       IN  /\ last_valid_data' = left[1]
           /\ connection_ok' = left[2]
           /\ data' = left[3]
    /\ UNCHANGED <<pc, returned, lastFetch, goodReading, job, tickStartData,
                   sentTids, setup>>

Next ==
    \/ (Setup /\ UNCHANGED <<readVars, decodeVars>>)
    \/ (TickBegin /\ UNCHANGED <<readVars, decodeVars>>)
    \/ (TickFetch /\ UNCHANGED <<readVars, decodeVars>>)
    \/ (TickEnd /\ UNCHANGED <<readVars, decodeVars>>)
    \/ (Read /\ UNCHANGED <<readVars, decodeVars>>)

Spec == Init /\ [][Next]_vars

(***************************************************************************)
(* SpecRead: one call of read_holding_registers(0, count) on a client whose *)
(* _tid is rd_tid, for each request and each response of the bounded sets.  *)
(***************************************************************************)
\* Register words a response may carry.
WordSamples == {0, 258, 65535}
WordSeqs == UNION {[1 .. n -> WordSamples] : n \in 0 .. MaxWords}
\* A long response: n words, word i being LongWord(i).
LongWord(i) == (i * 521 + 7) % WordMod
LongWords(n) == [i \in 1 .. n |-> LongWord(i)]

ReadCounts == (-1 .. MaxCount) \cup {MaxRegisters, MaxRegisters + 1}
ReadTids == {0, WordMod - 2, WordMod - 1}

ReadWires ==
    FailedWires
    \* the byte count says what follows, with and without an unpaired byte
    \cup {ReadResponse(w, t) : w \in WordSeqs, t \in {<< >>, <<9>>}}
    \* the byte count says less, or more, than what follows
    \cup {Framed(<<3, bc>> \o PackWords(w)) : w \in WordSeqs, bc \in {0, 1, 2, 3, 200}}
    \* an exception response, with one or two bytes
    \cup {Framed(<<131>>), Framed(<<131, 2>>), Framed(<<255, 4, 1>>)}
    \* responses long enough for the largest count
    \cup {ReadResponse(LongWords(n), t) :
            n \in (MaxRegisters - 1) .. (MaxRegisters + 2), t \in {<< >>, <<9>>}}

InitRead ==
    /\ InitLoop /\ DecodeIdle
    /\ rd_tid \in ReadTids
    /\ rd_count \in ReadCounts
    /\ rd_wire \in ReadWires
    /\ rd_result = NoCall

CallRead ==
    /\ rd_result = NoCall
    /\ rd_result' = ReadHoldingRegisters(rd_tid, 0, rd_count, rd_wire)
    /\ UNCHANGED <<rd_tid, rd_count, rd_wire, loopVars, decodeVars>>

NextRead == CallRead

SpecRead == InitRead /\ [][NextRead]_vars

(***************************************************************************)
(* SpecDecode: one call of an accessor over a reading that holds dc_raw at  *)
(* the accessor's address, for each accessor and each raw value sampled.    *)
(***************************************************************************)
RawSamples ==
    (0 .. MaxRaw) \cup (19998 .. 20004) \cup (45534 .. 45538)
    \cup {32767, 32768, 65534, 65535}

DecodeKeys == RegisterKeys \cup {"door"}

AddressOf(key) == IF key = "door" THEN DoorAddress ELSE RegDef(key).address

\* A full reading whose register at address is raw, the others 0.
ReadingWith(address, raw) ==
    [i \in 0 .. (RegisterCount - 1) |-> IF i = address THEN raw ELSE 0]

InitDecode ==
    /\ InitLoop /\ ReadIdle
    /\ dc_key \in DecodeKeys
    /\ dc_raw \in RawSamples
    /\ dc_value = Unset

CallDecode ==
    /\ dc_value = Unset
    /\ LET d == SomeData(ReadingWith(AddressOf(dc_key), dc_raw))
       IN  dc_value' = IF dc_key = "door" THEN DoorIsOn(d)
                       ELSE NativeValue(RegDef(dc_key), d)
    /\ UNCHANGED <<dc_key, dc_raw, loopVars, readVars>>

NextDecode == CallDecode

SpecDecode == InitDecode /\ [][NextDecode]_vars

(***************************************************************************)
(* Properties.                                                              *)
(***************************************************************************)
\* A tick has completed.
Ticked == lastFetch.exc # "unset"
\* The last tick's read returned without raising, with at least one register.
TickSucceeded == lastFetch.exc = "none" /\ lastFetch.value # EmptyDict
\* The last tick's transport raised, or its read returned an empty result.
TickFailed == Ticked /\ ~TickSucceeded
\* The last tick's read returned all the registers requested.
TickFull == lastFetch.exc = "none" /\ DOMAIN lastFetch.value = 0 .. (RegisterCount - 1)
\* A reading of exactly the requested registers, one word each.
FullReading(d) ==
    /\ DOMAIN d = 0 .. (RegisterCount - 1)
    /\ \A i \in DOMAIN d : d[i] \in 0 .. (WordMod - 1)

\* C1: after a failed tick (the transport raised, or the read returned an
\* empty result) _last_valid_data is the reading of the most recent
\* successful tick (empty if there was none), the tick returned that reading,
\* and connection_ok is false.
C1_FailedTickKeepsCache ==
    TickFailed =>
        /\ last_valid_data = goodReading
        /\ returned = [kind |-> "value", value |-> goodReading]
        /\ connection_ok = FALSE

\* A failed tick that follows a successful one.
C1_Witness == TickFailed /\ goodReading # EmptyDict /\ lastFetch.exc = "timeout"

\* C2: whatever the transport did, the tick ends by returning a reading,
\* which the coordinator publishes; it never raises.
C2_TickNeverRaises ==
    Ticked => returned.kind = "value" /\ data = SomeData(returned.value)

\* A tick whose response was a malformed frame (a one-byte PDU) returned.
C2_Witness == lastFetch.exc = "IndexError" /\ returned.kind = "value"

\* C3: the connectivity indicator is on only when the last tick succeeded and
\* a non-empty reading is exposed; it is off after a failed tick, stale
\* reading or not, and before the first tick; it is always available.
C3_ConnectivityIndicator ==
    /\ ConnectionIsOn(connection_ok, data) = PyBool(TRUE)
          => TickSucceeded /\ Truthy(data)
    /\ TickFailed => ConnectionIsOn(connection_ok, data) = PyBool(FALSE)
    /\ ~Ticked => ConnectionIsOn(connection_ok, data) = PyBool(FALSE)
    /\ ConnectionAvailable = PyBool(TRUE)
    /\ lastRead.acc = "connection" /\ lastRead.val = PyBool(TRUE) => TickSucceeded

\* A consumer reads the indicator as off after a failed tick, over a stale reading.
C3_Witness ==
    /\ TickFailed /\ Truthy(data)
    /\ lastRead = [acc |-> "connection", val |-> PyBool(FALSE)]

\* C4: before any successful poll the cache is empty, every register sensor
\* and the door sensor return None, and the connectivity indicator is off.
C4_UnavailableBeforeFirstSuccess ==
    goodReading = EmptyDict =>
        /\ last_valid_data = EmptyDict
        /\ \A key \in RegisterKeys : Access(key) = None
        /\ Access("door") = None
        /\ Access("connection") = PyBool(FALSE)
        /\ lastRead.acc \in RegisterKeys \cup {"door"} => lastRead.val = None

\* A consumer reads a register sensor after only failed ticks.
C4_Witness ==
    /\ TickFailed /\ goodReading = EmptyDict
    /\ lastRead = [acc |-> "TT", val |-> None]

\* C5: after a tick connection_ok is true exactly when the read returned the
\* full result; after a failure, an empty or a short result the tick leaves
\* the cache as it was and returns it.
C5_HealthyIffFullResult ==
    [][(pc = "fetched" /\ pc' = "idle") =>
          /\ connection_ok' = (lastFetch'.exc = "none"
                               /\ DOMAIN lastFetch'.value = 0 .. (RegisterCount - 1))
          /\ ~(lastFetch'.exc = "none"
               /\ DOMAIN lastFetch'.value = 0 .. (RegisterCount - 1))
                => /\ last_valid_data' = last_valid_data
                   /\ returned'.value = last_valid_data]_vars

\* C6: the cached reading, and the reading consumers see, is empty or holds
\* exactly the registers 0..21, one word each.
C6_CacheEmptyOrFull ==
    /\ last_valid_data = EmptyDict \/ FullReading(last_valid_data)
    /\ data.map = EmptyDict \/ FullReading(data.map)

\* The bytes of rd_wire after the header, the function code and the byte count.
RegisterBytes == SubSeq(rd_wire.bytes, HeaderLen + 3, Len(rd_wire.bytes))
\* rd_wire is a well-formed response to a request for rd_count registers.
WellFormed ==
    /\ rd_wire.kind = "data"
    /\ Len(rd_wire.bytes) >= HeaderLen + 2
    /\ rd_wire.bytes[HeaderLen + 1] = 3
    /\ rd_wire.bytes[HeaderLen + 2] = Len(RegisterBytes)
    /\ Len(RegisterBytes) % 2 = 0
    /\ Len(RegisterBytes) \div 2 >= rd_count

\* C7: for count in 1..125 and a well-formed response the call returns exactly
\* count words, word i being the big-endian value of the i-th byte pair.
C7_ReturnsCountWords ==
    (rd_result # NoCall /\ rd_count \in 1 .. 125 /\ WellFormed) =>
        /\ rd_result.exc = "none"
        /\ Len(rd_result.value) = rd_count
        /\ \A i \in 1 .. rd_count :
              rd_result.value[i] = RegisterBytes[2 * i - 1] * 256 + RegisterBytes[2 * i]

\* The largest count, answered with more words than asked for.
C7_Witness ==
    /\ rd_result # NoCall /\ rd_count = 125 /\ WellFormed
    /\ Len(RegisterBytes) > 250
    /\ Len(rd_result.value) = 125
    /\ rd_result.value[125] = LongWord(125)

\* The bytes a hexadecimal rendering stands for.
UnHex(h) == [i \in 1 .. (Len(h) \div 2) |-> h[2 * i - 1] * 16 + h[2 * i]]

\* C8: a received response of fewer than 7 bytes, or with nothing after the
\* 7-byte header, or whose function code has bit 0x80 set, ends the call in an
\* error with no registers returned; in the last case the error carries the
\* bytes of the exception PDU.
C8_BadResponseRaises ==
    (rd_result # NoCall /\ rd_count \in 1 .. 125 /\ rd_wire.kind = "data") =>
        /\ Len(rd_wire.bytes) <= HeaderLen
              => rd_result.exc # "none" /\ rd_result.value = << >>
        /\ (Len(rd_wire.bytes) > HeaderLen /\ rd_wire.bytes[HeaderLen + 1] >= 128)
              => /\ rd_result.exc # "none" /\ rd_result.value = << >>
                 /\ UnHex(rd_result.hex)
                      = SubSeq(rd_wire.bytes, HeaderLen + 1, Len(rd_wire.bytes))

\* An exception response with a code other than 0x83 ended in the error.
C8_Witness ==
    /\ rd_result.exc = "IOError"
    /\ rd_wire.kind = "data" /\ Len(rd_wire.bytes) = HeaderLen + 3
    /\ rd_wire.bytes[HeaderLen + 1] = 255
    /\ UnHex(rd_result.hex) = <<255, 4, 1>>

\* C9: T1 and T2 decode 20000 to "HI", 45536 to "LO", 20001 to "---", 20002
\* to "Neaktivní", and any other raw value to raw/10 with one decimal.
C9_TemperatureDecoding ==
    (dc_value # Unset /\ dc_key \in {"TT", "TT2"}) =>
        dc_value = CASE dc_raw = 20000 -> PyStr("HI")
                     [] dc_raw = 45536 -> PyStr("LO")
                     [] dc_raw = 20001 -> PyStr("---")
                     [] dc_raw = 20002 -> PyStr("Neaktivní")
                     [] OTHER -> PyFloat(dc_raw)

\* T2 at the under-range sentinel.
C9_Witness == dc_key = "TT2" /\ dc_raw = 45536 /\ dc_value = PyStr("LO")

\* The fixed table of an enumerated register.
TableOf(key) ==
    CASE key = "STAT" -> STATUS_MAP
      [] key = "REZIM" -> MODE_MAP
      [] key = "PALIVO" -> FUEL_MAP
      [] key = "PRILOZ" -> REFUEL_MAP
      [] key = "BARVA" -> COLOR_MAP
      [] key = "BEEP" -> BEEP_MAP
      [] OTHER -> RELAY_MAP
EnumeratedKeys == {"STAT", "REZIM", "PALIVO", "PRILOZ", "BARVA", "BEEP", "RELE1", "RELE2"}

\* C10 as claimed: every enumerated register decodes a raw value of its table
\* to the table's label and any other raw value to the raw number itself.
C10_Original ==
    (dc_value # Unset /\ dc_key \in EnumeratedKeys) =>
        dc_value = IF dc_raw \in DOMAIN TableOf(dc_key)
                   THEN PyStr(TableOf(dc_key)[dc_raw]) ELSE PyInt(dc_raw)

\* C10: every enumerated register decodes a raw value of its table to the
\* table's label; an unmapped raw value decodes to the raw number itself,
\* except for the operating status, where it decodes to the text
\* "Neznámý (<raw>)".
C10_EnumeratedDecoding ==
    (dc_value # Unset /\ dc_key \in EnumeratedKeys) =>
        dc_value = IF dc_raw \in DOMAIN TableOf(dc_key)
                   THEN PyStr(TableOf(dc_key)[dc_raw])
                   ELSE IF dc_key = "STAT"
                   THEN PyStr("Neznámý (" \o ToString(dc_raw) \o ")")
                   ELSE PyInt(dc_raw)

\* An unmapped fuel type decoded to its raw number.
C10_Witness == dc_key = "PALIVO" /\ dc_raw = 65535 /\ dc_value = PyInt(65535)


\* Bit b (0 the lowest) of raw is set.
HasBit(raw, b) == (raw \div (2 ^ b)) % 2 = 1

\* C11: the fault-flags register decodes 0 to "Bez poruchy"; a raw value with
\* some of bits 0, 1, 3 set to the names of exactly those bits ("T1", "T2",
\* "Dvírka"), in ascending bit order, joined by ", "; and a nonzero raw value
\* with none of them set to "Neznámá (<raw>)".
C11_FaultFlags ==
    (dc_value # Unset /\ dc_key = "PORUCHA") =>
        dc_value =
            IF dc_raw = 0 THEN PyStr("Bez poruchy")
            ELSE CASE HasBit(dc_raw, 0) /\ HasBit(dc_raw, 1) /\ HasBit(dc_raw, 3)
                        -> PyStr("T1, T2, Dvírka")
                   [] HasBit(dc_raw, 0) /\ HasBit(dc_raw, 1) /\ ~HasBit(dc_raw, 3)
                        -> PyStr("T1, T2")
                   [] HasBit(dc_raw, 0) /\ ~HasBit(dc_raw, 1) /\ HasBit(dc_raw, 3)
                        -> PyStr("T1, Dvírka")
                   [] HasBit(dc_raw, 0) /\ ~HasBit(dc_raw, 1) /\ ~HasBit(dc_raw, 3)
                        -> PyStr("T1")
                   [] ~HasBit(dc_raw, 0) /\ HasBit(dc_raw, 1) /\ HasBit(dc_raw, 3)
                        -> PyStr("T2, Dvírka")
                   [] ~HasBit(dc_raw, 0) /\ HasBit(dc_raw, 1) /\ ~HasBit(dc_raw, 3)
                        -> PyStr("T2")
                   [] ~HasBit(dc_raw, 0) /\ ~HasBit(dc_raw, 1) /\ HasBit(dc_raw, 3)
                        -> PyStr("Dvírka")
                   [] OTHER -> PyStr("Neznámá (" \o ToString(dc_raw) \o ")")

\* All three faults at once, among other bits.
C11_Witness == dc_key = "PORUCHA" /\ dc_raw = 27 /\ dc_value = PyStr("T1, T2, Dvírka")


\* C18: the flap position decodes 255 to "Inicializace" and any other raw value
\* to the number min(100, max(0, raw)), which lies in 0..100.
C18_FlapPosition ==
    (dc_value # Unset /\ dc_key = "SER1") =>
        IF dc_raw = 255 THEN dc_value = PyStr("Inicializace")
        ELSE /\ dc_value = PyInt(IF dc_raw > 100 THEN 100 ELSE dc_raw)
             /\ dc_value.v \in 0 .. 100

\* A raw value above 100 other than 255.
C18_Witness == dc_key = "SER1" /\ dc_raw = 256 /\ dc_value = PyInt(100)

\* The PDU of rd_wire, and the register bytes the call takes from it: those
\* after the function code and the byte count, as many as the byte count says.
PduOf(wire) == SubSeq(wire.bytes, HeaderLen + 1, Len(wire.bytes))
TakenBytes ==
    LET pdu == PduOf(rd_wire)
    IN  SubSeq(pdu, 3, IF pdu[2] + 2 < Len(pdu) THEN pdu[2] + 2 ELSE Len(pdu))
\* rd_wire is a response that is no exception and whose register bytes have odd length.
OddResponse ==
    /\ rd_wire.kind = "data"
    /\ Len(rd_wire.bytes) >= HeaderLen + 2
    /\ rd_wire.bytes[HeaderLen + 1] < 128
    /\ Len(TakenBytes) % 2 = 1

\* C19: register bytes of odd length end the call without error, with the words
\* of the complete byte pairs (at most count of them); the last byte is dropped.
C19_OddTrailingByteDropped ==
    (rd_result # NoCall /\ rd_count \in 1 .. 125 /\ OddResponse) =>
        /\ rd_result.exc = "none"
        /\ Len(rd_result.value)
             = (IF (Len(TakenBytes) - 1) \div 2 < rd_count
                THEN (Len(TakenBytes) - 1) \div 2 ELSE rd_count)
        /\ \A i \in 1 .. Len(rd_result.value) :
              rd_result.value[i] = TakenBytes[2 * i - 1] * 256 + TakenBytes[2 * i]

\* Two words and an unpaired byte, three registers asked for: two returned.
C19_Witness ==
    /\ rd_result # NoCall /\ rd_count = 3 /\ OddResponse
    /\ Len(TakenBytes) = 5
    /\ rd_result.value = <<258, 65535>>


\* The elements of a sequence.
Range(s) == {s[i] : i \in DOMAIN s}

\* C12: setup ends without raising, and once the device's T2 register has been
\* read, the entities made leave out the TimNet-200-only descriptors exactly
\* when that T2 value is 20000, 20001 or 20002.
C12_VariantInference ==
    setup.state = "done" =>
        /\ setup.raised = FALSE
        /\ T2Address \in DOMAIN goodReading =>
              \A i \in DOMAIN REGISTER_DEFINITIONS :
                 (REGISTER_DEFINITIONS[i].key \in Range(setup.entities))
                   <=> ~(/\ REGISTER_DEFINITIONS[i].timnet_200_only
                         /\ goodReading[T2Address] \in {20000, 20001, 20002})

\* C13: after a tick that read all 22 registers, every sensor returns its
\* decode rule applied to the register just read at its address and the door
\* sensor tells whether register 4 is nonzero; for the block 215, 0, 1200, 50,
\* 0, ... T1 is 21.5, the combustion time 20.0, the flap position 50 and the
\* door closed.
C13_EndToEnd ==
    TickFull =>
        /\ \A key \in RegisterKeys :
              Access(key) = Decode(RegDef(key), lastFetch.value[RegDef(key).address])
        /\ Access("door") = PyBool(lastFetch.value[4] # 0)
        /\ (\A i \in 0 .. 4 : lastFetch.value[i] = <<215, 0, 1200, 50, 0>>[i + 1])
              => /\ Access("TT") = PyFloat(215)
                 /\ Access("CAS") = PyFloat(200)
                 /\ Access("SER1") = PyInt(50)
                 /\ Access("door") = PyBool(FALSE)

\* The example block read over another reading, and the combustion time read.
C13_Witness ==
    /\ TickFull /\ lastFetch.value[0] = 215
    /\ Truthy(tickStartData) /\ tickStartData.map[0] = 20000
    /\ lastRead = [acc |-> "CAS", val |-> PyFloat(200)]

\* C14: of two requests sent one after the other, the second carries the
\* transaction id of the first plus one, modulo 65536.
C14_TidIncrements ==
    /\ \A i \in DOMAIN sentTids : sentTids[i] \in 0 .. 65535
    /\ Len(sentTids) = 2 => sentTids[2] = (sentTids[1] + 1) % 65536

\* One transport attempt: one call of create_connection, at most one
\* connection, at most one request on it, and the connection closed.
OneAttempt(net) ==
    /\ net.connects = 1
    /\ net.opened <= 1
    /\ net.sent <= net.opened
    /\ net.closed = net.opened

\* C15: the fetch of a tick makes one transport attempt and leaves no
\* connection open, however it ends; a failed fetch has no registers.
C15_OneAttemptPerTick ==
    /\ Ticked => OneAttempt(lastFetch.net)
    /\ pc = "fetched" => OneAttempt(job.net)
    /\ (Ticked /\ lastFetch.exc # "none") => lastFetch.value = << >>

\* A tick whose request was sent and whose receive timed out.
C15_Witness ==
    /\ lastFetch.exc = "timeout" /\ lastFetch.net.sent = 1
    /\ lastFetch.net.opened = 1 /\ lastFetch.net.closed = 1

\* C16: while a tick is under way consumers see the reading they saw when it
\* began; when it has ended they see that reading or the whole new one; and
\* what an accessor returned during the tick is its value on the old reading.
C16_NoTornRead ==
    /\ pc # "idle" => data = tickStartData
    /\ (pc = "idle" /\ Ticked) => data.map \in {tickStartData.map, lastFetch.value}
    /\ (pc # "idle" /\ lastRead.acc # "none")
          => lastRead.val = AccessOn(lastRead.acc, connection_ok, tickStartData)

\* A sensor read after the executor job ended with another reading.
C16_Witness ==
    /\ pc = "fetched" /\ readAt = "fetched"
    /\ job.exc = "none" /\ DOMAIN job.value = DOMAIN tickStartData.map
    /\ Truthy(tickStartData) /\ job.value[0] # tickStartData.map[0]
    /\ lastRead = [acc |-> "TT", val |-> PyFloat(215)]

C20_ReturnedIsCache ==
    Ticked =>
        /\ returned.value = last_valid_data
        /\ data.map = last_valid_data
        /\ ConnectionIsOn(connection_ok, data) = PyBool(TRUE)
              => data.map = lastFetch.value

\* A failed tick over a cached reading.
C20_Witness ==
    /\ TickFailed /\ lastFetch.exc = "IOError"
    /\ last_valid_data # EmptyDict /\ returned.value = last_valid_data


\* C21: read_holding_registers called with a count below 1 or above 125 ends
\* in ValueError with no register returned, and before any network activity:
\* create_connection is not called, no connection is opened, no request is
\* built or sent, and the client's _tid is the one it had before the call.
C21_BadCountRejected ==
    (rd_result # NoCall /\ (rd_count < 1 \/ rd_count > 125)) =>
        /\ rd_result.exc = "ValueError"
        /\ rd_result.value = << >>
        /\ rd_result.net.connects = 0
        /\ rd_result.net.opened = 0
        /\ rd_result.net.sent = 0
        /\ rd_result.net.adu = << >>
        /\ rd_result.net.tid = rd_tid

\* 126 registers asked of a client whose _tid is 65535, with a device that
\* would have answered.
C21_Witness ==
    /\ rd_result.exc = "ValueError" /\ rd_count = 126 /\ rd_tid = 65535
    /\ rd_wire.kind = "data" /\ Len(rd_wire.bytes) > HeaderLen
    /\ rd_result.net.tid = 65535

\* A negative count is rejected in the same way.
C21_WitnessNegative ==
    /\ rd_result.exc = "ValueError" /\ rd_count = -1
    /\ rd_result.net.connects = 0

====
